---- MODULE Spec2Model ----
(***************************************************************************)
(* The initrd plugin of snapcraft (snapcraft/parts/plugins/                *)
(* initrd_plugin.py): the validated properties record                      *)
(* InitrdPluginProperties and the plugin InitrdPlugin that the part build  *)
(* system queries for packages, snaps, environment and build commands.     *)
(*                                                                         *)
(* An Optional[T] value is modelled as a sequence of length at most one:   *)
(* None is <<>> and a present value x is <<x>>, so that an empty string    *)
(* <<"">> and an empty list << <<>> >> stay distinct from None, as they    *)
(* are in Python.                                                          *)
(***************************************************************************)
EXTENDS Naturals, Sequences, FiniteSets

VARIABLES
    data,        \* the part specification the orchestrator starts from
    properties,  \* the InitrdPluginProperties object, None until constructed
    error,       \* the validation error raised by the construction, if any
    part_info,   \* the part metadata the orchestrator constructs the plugin with
    plugin,      \* the InitrdPlugin object, None until constructed
    ret          \* what the latest query returned to the orchestrator

vars == <<data, properties, error, part_info, plugin, ret>>

None == <<>>

Some(x) == <<x>>

(* Longest list drawn for initrd-compression-options. *)
MaxLen == 1

(* uid of the super user, the literal os.getuid() is compared with. *)
RootUid == 0

Uids == {RootUid, 1000}

RECURSIVE ListsUpTo(_, _)
ListsUpTo(S, n) ==
    IF n = 0 THEN {<<>>}
    ELSE LET shorter == ListsUpTo(S, n - 1)
         IN  shorter \cup {Append(l, x) : l \in shorter, x \in S}

OptionalOf(S) == {None} \cup {Some(x) : x \in S}

(* Python truthiness of an Optional[str], Optional[List[str]] and          *)
(* Optional[bool] value, as values.get(...) is tested by the validator.    *)
TruthyStr(o) == o # None /\ o[1] # ""

TruthyList(o) == o # None /\ Len(o[1]) > 0

TruthyBool(o) == o # None /\ o[1]

(***************************************************************************)
(* The part specification handed to unmarshal: the ten initrd options      *)
(* (None when the key is absent) beside a key of the part that is not a    *)
(* plugin option.                                                          *)
(***************************************************************************)
CompressionValues == {"", "lz4", "xz", "gz", "zstd", "bzip2"}

PartSpecs ==
    [ source                     : {"."},
      initrd_build_efi_image     : OptionalOf(BOOLEAN),
      initrd_efi_image_key       : OptionalOf({"", "PkKek-1.key"}),
      initrd_efi_image_cert      : OptionalOf({"", "PkKek-1.crt"}),
      initrd_modules             : OptionalOf({<<"virtio_net">>}),
      initrd_configured_modules  : OptionalOf({<<"nvme">>}),
      initrd_firmware            : OptionalOf({<<"firmware/wifi.bin">>}),
      initrd_compression         : OptionalOf(CompressionValues),
      initrd_compression_options : OptionalOf(ListsUpTo({"-9"}, MaxLen)),
      initrd_overlay             : OptionalOf({"overlay"}),
      initrd_addons              : OptionalOf({<<"usr/bin/fde-reveal-key">>}) ]

PluginKeys ==
    { "initrd_build_efi_image", "initrd_efi_image_key", "initrd_efi_image_cert",
      "initrd_modules", "initrd_configured_modules", "initrd_firmware",
      "initrd_compression", "initrd_compression_options", "initrd_overlay",
      "initrd_addons" }

(* plugins.extract_plugin_properties: the keys of the plugin, nothing else. *)
extract_plugin_properties(d) == [k \in PluginKeys |-> d[k]]

(* The field declarations: every field is optional and defaults to None,   *)
(* except initrd_build_efi_image, which defaults to False.                 *)
InitrdPluginProperties_fields(plugin_data) ==
    [plugin_data EXCEPT !.initrd_build_efi_image =
        IF plugin_data.initrd_build_efi_image = None
        THEN Some(FALSE)
        ELSE plugin_data.initrd_build_efi_image]

CompressionOptionsError ==
    "initrd-compression-options requires also initrd-compression to be defined."

EfiImageError ==
    "initrd-efi-image-key and initrd-efi-image-cert must be both set if any is setused when initrd-build-efi-image is enabled."

(* The validator without its first check. *)
validate_pluging_options_no_compression_check(values) ==
    IF /\ \/ TruthyStr(values.initrd_efi_image_key)
          \/ TruthyStr(values.initrd_efi_image_cert)
       /\ ~ /\ TruthyBool(values.initrd_build_efi_image)
            /\ TruthyStr(values.initrd_efi_image_key)
            /\ TruthyStr(values.initrd_efi_image_cert)
    THEN [raised |-> TRUE, error |-> EfiImageError, values |-> None]
    ELSE [raised |-> FALSE, error |-> "", values |-> Some(values)]

(* The validator with a second check that asks for key and certificate     *)
(* together and forgets initrd-build-efi-image.                            *)
validate_pluging_options_efi_without_build(values) ==
    IF /\ TruthyList(values.initrd_compression_options)
       /\ ~TruthyStr(values.initrd_compression)
    THEN [raised |-> TRUE, error |-> CompressionOptionsError, values |-> None]
    ELSE IF /\ \/ TruthyStr(values.initrd_efi_image_key)
               \/ TruthyStr(values.initrd_efi_image_cert)
            /\ ~ /\ TruthyStr(values.initrd_efi_image_key)
                 /\ TruthyStr(values.initrd_efi_image_cert)
    THEN [raised |-> TRUE, error |-> EfiImageError, values |-> None]
    ELSE [raised |-> FALSE, error |-> "", values |-> Some(values)]

(* The validator with initrd-compression held to the documented values. *)
validate_pluging_options_enumerated(values) ==
    IF /\ TruthyList(values.initrd_compression_options)
       /\ ~TruthyStr(values.initrd_compression)
    THEN [raised |-> TRUE, error |-> CompressionOptionsError, values |-> None]
    ELSE IF /\ TruthyStr(values.initrd_compression)
            /\ values.initrd_compression[1] \notin {"lz4", "xz", "gz", "zstd"}
    THEN [raised |-> TRUE, error |-> "unsupported initrd-compression", values |-> None]
    ELSE IF /\ \/ TruthyStr(values.initrd_efi_image_key)
               \/ TruthyStr(values.initrd_efi_image_cert)
            /\ ~ /\ TruthyBool(values.initrd_build_efi_image)
                 /\ TruthyStr(values.initrd_efi_image_key)
                 /\ TruthyStr(values.initrd_efi_image_cert)
    THEN [raised |-> TRUE, error |-> EfiImageError, values |-> None]
    ELSE [raised |-> FALSE, error |-> "", values |-> Some(values)]

validate_pluging_options(values) ==
    IF /\ TruthyList(values.initrd_compression_options)
       /\ ~TruthyStr(values.initrd_compression)
    THEN [raised |-> TRUE, error |-> CompressionOptionsError, values |-> None]
    ELSE IF /\ \/ TruthyStr(values.initrd_efi_image_key)
               \/ TruthyStr(values.initrd_efi_image_cert)
            /\ ~ /\ TruthyBool(values.initrd_build_efi_image)
                 /\ TruthyStr(values.initrd_efi_image_key)
                 /\ TruthyStr(values.initrd_efi_image_cert)
    THEN [raised |-> TRUE, error |-> EfiImageError, values |-> None]
    ELSE [raised |-> FALSE, error |-> "", values |-> Some(values)]

(* Construction from keyword arguments: the fields are filled in, then    *)
(* the root validator runs; the object exists only when it returns.        *)
InitrdPluginProperties(plugin_data) ==
    validate_pluging_options(InitrdPluginProperties_fields(plugin_data))

(***************************************************************************)
(* Part metadata.  PartInfo hands attributes it does not define to its     *)
(* ProjectInfo, so part_info.target_arch is project_info.target_arch.      *)
(***************************************************************************)
Architectures == {"amd64", "arm64"}

Bases == {"core20", "core22", "core24"}

PartInfos ==
    [ base         : Bases,
      project_info : [host_arch : Architectures, target_arch : Architectures] ]

PartInfo_target_arch(info) == info.project_info.target_arch

(* __init__ with the two series the wrong way round. *)
InitrdPlugin_init_series_swapped(props, info) ==
    [ options         |-> props,
      _part_info      |-> info,
      _target_arch    |-> PartInfo_target_arch(info),
      _cross_building |-> info.project_info.host_arch
                              # info.project_info.target_arch,
      _ubuntu_series  |-> IF info.base = "core22" THEN "noble" ELSE "jammy" ]

(* InitrdPlugin.__init__.  _deb_arch is left out: no method reads it. *)
InitrdPlugin_init(props, info) ==
    [ options         |-> props,
      _part_info      |-> info,
      _target_arch    |-> PartInfo_target_arch(info),
      _cross_building |-> info.project_info.host_arch
                              # info.project_info.target_arch,
      _ubuntu_series  |-> IF info.base = "core22" THEN "jammy" ELSE "noble" ]

(* get_build_snaps asking for the snap of the part's base. *)
get_build_snaps_base(self) == {self._part_info.base}

get_build_snaps(self) == {}

(* get_build_packages with a compression tool chosen by initrd-compression, *)
(* zstd by default.                                                        *)
get_build_packages_with_compression(self, uid) ==
    LET build_packages == {"curl", "dracut-core", "fakechroot", "fakeroot"}
        compression == self.options.initrd_compression
        tool == IF compression = Some("lz4") THEN "lz4"
                ELSE IF compression = Some("xz") THEN "xz-utils"
                ELSE IF compression = Some("gz") THEN "gzip"
                ELSE "zstd"
    IN  IF self._cross_building /\ uid # RootUid
        THEN build_packages \cup { "libfakechroot:" \o self._target_arch,
                                   "libfakeroot:" \o self._target_arch, tool }
        ELSE build_packages \cup {tool}

(* get_build_packages with llvm when an EFI image is built. *)
get_build_packages_with_llvm(self, uid) ==
    LET build_packages ==
            {"curl", "dracut-core", "fakechroot", "fakeroot"}
            \cup IF TruthyBool(self.options.initrd_build_efi_image)
                 THEN {"llvm"} ELSE {}
    IN  IF self._cross_building /\ uid # RootUid
        THEN build_packages \cup { "libfakechroot:" \o self._target_arch,
                                   "libfakeroot:" \o self._target_arch }
        ELSE build_packages

(* get_build_packages with the libraries of the host architecture. *)
get_build_packages_host_arch(self, uid) ==
    LET build_packages == {"curl", "dracut-core", "fakechroot", "fakeroot"}
        host_arch == self._part_info.project_info.host_arch
    IN  IF self._cross_building /\ uid # RootUid
        THEN build_packages \cup { "libfakechroot:" \o host_arch,
                                   "libfakeroot:" \o host_arch }
        ELSE build_packages

get_build_packages(self, uid) ==
    LET build_packages == {"curl", "dracut-core", "fakechroot", "fakeroot"}
    IN  IF self._cross_building /\ uid # RootUid
        THEN build_packages \cup { "libfakechroot:" \o self._target_arch,
                                   "libfakeroot:" \o self._target_arch }
        ELSE build_packages

get_build_environment(self) ==
    [ UC_INITRD_ROOT_NAME |-> "uc-initramfs-build-root",
      UC_INITRD_ROOT      |-> "${CRAFT_PART_SRC}/${UC_INITRD_ROOT_NAME}",
      KERNEL_MODULES      |-> "${CRAFT_STAGE}/modules",
      KERNEL_FIRMWARE     |-> "${CRAFT_STAGE}/firmware",
      UBUNTU_SERIES       |-> self._ubuntu_series,
      UBUNTU_CORE_BASE    |-> self._part_info.base ]

(* The keyword arguments with firmware and addons taken for each other. *)
build_commands_arguments_swapped(self) ==
    [ initrd_modules             |-> self.options.initrd_modules,
      initrd_configured_modules  |-> self.options.initrd_configured_modules,
      initrd_compression         |-> self.options.initrd_compression,
      initrd_compression_options |-> self.options.initrd_compression_options,
      initrd_firmware            |-> self.options.initrd_addons,
      initrd_addons              |-> self.options.initrd_firmware,
      initrd_overlay             |-> self.options.initrd_overlay,
      initrd_ko_use_workaround   |-> FALSE,
      initrd_default_compression |-> "zstd -1 -T0",
      build_efi_image            |-> self.options.initrd_build_efi_image,
      efi_image_key              |-> self.options.initrd_efi_image_key,
      efi_image_cert             |-> self.options.initrd_efi_image_cert ]

(* The keyword arguments get_build_commands hands to the collaborator. *)
build_commands_arguments(self) ==
    [ initrd_modules             |-> self.options.initrd_modules,
      initrd_configured_modules  |-> self.options.initrd_configured_modules,
      initrd_compression         |-> self.options.initrd_compression,
      initrd_compression_options |-> self.options.initrd_compression_options,
      initrd_firmware            |-> self.options.initrd_firmware,
      initrd_addons              |-> self.options.initrd_addons,
      initrd_overlay             |-> self.options.initrd_overlay,
      initrd_ko_use_workaround   |-> FALSE,
      initrd_default_compression |-> "zstd -1 -T0",
      build_efi_image            |-> self.options.initrd_build_efi_image,
      efi_image_key              |-> self.options.initrd_efi_image_key,
      efi_image_cert             |-> self.options.initrd_efi_image_cert ]

(***************************************************************************)
(* _initrd_build.get_build_commands, the collaborator: an ordered list of  *)
(* commands that is a function of the arguments it is called with.  A      *)
(* command is kept as the step it performs and the arguments it is built   *)
(* from, in place of its shell text.                                       *)
(***************************************************************************)
initrd_build_get_build_commands(kwargs) ==
    << [step |-> "setup-initrd-chroot", args |-> kwargs],
       [step |-> "install-modules",     args |-> kwargs],
       [step |-> "create-initrd",       args |-> kwargs] >>

get_build_commands(self) ==
    initrd_build_get_build_commands(build_commands_arguments(self))

get_out_of_source_build == TRUE

Init ==
    /\ data \in PartSpecs
    /\ properties = None
    /\ error = None
    /\ part_info = None
    /\ plugin = None
    /\ ret = None

unmarshal ==
    /\ properties = None
    /\ error = None
    /\ LET made == InitrdPluginProperties(extract_plugin_properties(data))
       IN  /\ properties' = made.values
           /\ error' = IF made.raised THEN Some(made.error) ELSE None
    /\ UNCHANGED <<data, part_info, plugin, ret>>

(* InitrdPluginProperties(...) called with the plugin's options directly. *)
construct ==
    /\ properties = None
    /\ error = None
    /\ LET made == InitrdPluginProperties([k \in PluginKeys |-> data[k]])
       IN  /\ properties' = made.values
           /\ error' = IF made.raised THEN Some(made.error) ELSE None
    /\ UNCHANGED <<data, part_info, plugin, ret>>

(* The orchestrator instantiates the plugin with validated properties. *)
new_plugin ==
    /\ properties # None
    /\ plugin = None
    /\ \E info \in PartInfos :
          /\ part_info' = Some(info)
          /\ plugin' = Some(InitrdPlugin_init(properties[1], info))
    /\ UNCHANGED <<data, properties, error, ret>>

(* What the orchestrator observes of a query: the method, the uid of the   *)
(* process when the method reads it, the keyword arguments of the call     *)
(* made to the collaborator when there is one, and the value returned.     *)
Returned(query, uid, call, result) ==
    Some([query |-> query, uid |-> uid, call |-> call, result |-> result])

query_build_snaps ==
    /\ plugin # None
    /\ ret' = Returned("get_build_snaps", None, None, get_build_snaps(plugin[1]))
    /\ UNCHANGED <<data, properties, error, part_info, plugin>>

query_build_packages ==
    /\ plugin # None
    /\ \E uid \in Uids :
          ret' = Returned("get_build_packages", Some(uid), None,
                          get_build_packages(plugin[1], uid))
    /\ UNCHANGED <<data, properties, error, part_info, plugin>>

query_build_environment ==
    /\ plugin # None
    /\ ret' = Returned("get_build_environment", None, None,
                       get_build_environment(plugin[1]))
    /\ UNCHANGED <<data, properties, error, part_info, plugin>>

(* get_build_commands adding the configured modules to the stored          *)
(* initrd_modules before it forwards them.                                 *)
query_build_commands_merging_modules ==
    /\ plugin # None
    /\ LET options == plugin[1].options
           merged  == IF options.initrd_configured_modules = None
                      THEN options.initrd_modules
                      ELSE IF options.initrd_modules = None
                      THEN options.initrd_configured_modules
                      ELSE Some(options.initrd_modules[1]
                                \o options.initrd_configured_modules[1])
           self    == [plugin[1] EXCEPT !.options.initrd_modules = merged]
       IN  /\ plugin' = Some(self)
           /\ ret' = Returned("get_build_commands", None,
                              Some(build_commands_arguments(self)),
                              get_build_commands(self))
    /\ UNCHANGED <<data, properties, error, part_info>>

query_build_commands ==
    /\ plugin # None
    /\ ret' = Returned("get_build_commands", None,
                       Some(build_commands_arguments(plugin[1])),
                       get_build_commands(plugin[1]))
    /\ UNCHANGED <<data, properties, error, part_info, plugin>>

query_out_of_source_build ==
    /\ plugin # None
    /\ ret' = Returned("get_out_of_source_build", None, None, get_out_of_source_build)
    /\ UNCHANGED <<data, properties, error, part_info, plugin>>

Next ==
    \/ unmarshal
    \/ construct
    \/ new_plugin
    \/ query_build_snaps
    \/ query_build_packages
    \/ query_build_environment
    \/ query_build_commands
    \/ query_out_of_source_build

Spec == Init /\ [][Next]_vars

(***************************************************************************)
(* Vocabulary of the properties below.                                     *)
(***************************************************************************)
Constructed == properties # None \/ error # None

GivenText(o) == o \notin {None, Some("")}

GivenList(o) == o \notin {None, Some(<<>>)}

Asked(query) == plugin # None /\ ret # None /\ ret[1].query = query

BasePackages == {"curl", "dracut-core", "fakechroot", "fakeroot"}

CompressionPackages == {"lz4", "xz-utils", "gzip", "zstd"}

RecognisedCompression == {"lz4", "xz", "gz", "zstd"}

CompressionPackage(compression) ==
    IF compression = Some("lz4") THEN "lz4"
    ELSE IF compression = Some("xz") THEN "xz-utils"
    ELSE IF compression = Some("gz") THEN "gzip"
    ELSE "zstd"

C3_OneCompressionPackage ==
    ( /\ Asked("get_build_packages")
      /\ \/ plugin[1].options.initrd_compression = None
         \/ /\ plugin[1].options.initrd_compression # None
            /\ plugin[1].options.initrd_compression[1] \in RecognisedCompression )
    => /\ Cardinality(ret[1].result \cap CompressionPackages) = 1
       /\ CompressionPackage(plugin[1].options.initrd_compression) \in ret[1].result

(* C3, amended: with initrd_compression one of lz4, xz, gz, zstd or unset, *)
(* the set get_build_packages returns holds no compression tool package.   *)
C3_NoCompressionPackage ==
    ( /\ Asked("get_build_packages")
      /\ \/ plugin[1].options.initrd_compression = None
         \/ /\ plugin[1].options.initrd_compression # None
            /\ plugin[1].options.initrd_compression[1] \in RecognisedCompression )
    => ret[1].result \cap CompressionPackages = {}

C3_Witness ==
    /\ Asked("get_build_packages")
    /\ plugin[1].options.initrd_compression = Some("xz")

(* C4, as stated: with initrd_build_efi_image true, the set                *)
(* get_build_packages returns includes llvm.                               *)
C4_EfiImageNeedsLlvm ==
    ( /\ Asked("get_build_packages")
      /\ plugin[1].options.initrd_build_efi_image = Some(TRUE) )
    => "llvm" \in ret[1].result

(* C4, amended: with initrd_build_efi_image true, the set                  *)
(* get_build_packages returns does not include llvm.                       *)
C4_EfiImageWithoutLlvm ==
    ( /\ Asked("get_build_packages")
      /\ plugin[1].options.initrd_build_efi_image = Some(TRUE) )
    => "llvm" \notin ret[1].result

C4_Witness ==
    /\ Asked("get_build_packages")
    /\ plugin[1].options.initrd_build_efi_image = Some(TRUE)
    /\ plugin[1].options.initrd_efi_image_key = Some("PkKek-1.key")

(* C5: get_build_packages always returns curl, dracut-core, fakechroot and *)
(* fakeroot, and when the host architecture differs from the target        *)
(* architecture and the uid is not 0, also libfakechroot and libfakeroot   *)
(* qualified with the target architecture.                                 *)
C5_CrossBuildingPackages ==
    Asked("get_build_packages") =>
        /\ BasePackages \subseteq ret[1].result
        /\ ( /\ part_info[1].project_info.host_arch
                    # part_info[1].project_info.target_arch
             /\ ret[1].uid # Some(0) )
           => /\ ("libfakechroot:" \o part_info[1].project_info.target_arch)
                    \in ret[1].result
              /\ ("libfakeroot:" \o part_info[1].project_info.target_arch)
                    \in ret[1].result

C5_Witness ==
    /\ Asked("get_build_packages")
    /\ part_info[1].project_info.host_arch = "amd64"
    /\ part_info[1].project_info.target_arch = "arm64"
    /\ ret[1].uid = Some(1000)
    /\ "libfakeroot:arm64" \in ret[1].result

(* C6: get_build_commands calls the collaborator with every property field *)
(* as stored in the properties and returns the list the collaborator       *)
(* produces for that call, in its order.                                   *)
C6_CommandsForwardProperties ==
    Asked("get_build_commands") =>
        /\ ret[1].call # None
        /\ LET kwargs == ret[1].call[1]
               stored == properties[1]
           IN  /\ kwargs.initrd_modules = stored.initrd_modules
               /\ kwargs.initrd_configured_modules = stored.initrd_configured_modules
               /\ kwargs.initrd_compression = stored.initrd_compression
               /\ kwargs.initrd_compression_options = stored.initrd_compression_options
               /\ kwargs.initrd_firmware = stored.initrd_firmware
               /\ kwargs.initrd_addons = stored.initrd_addons
               /\ kwargs.initrd_overlay = stored.initrd_overlay
               /\ kwargs.build_efi_image = stored.initrd_build_efi_image
               /\ kwargs.efi_image_key = stored.initrd_efi_image_key
               /\ kwargs.efi_image_cert = stored.initrd_efi_image_cert
               /\ ret[1].result = initrd_build_get_build_commands(kwargs)

C6_Witness ==
    /\ Asked("get_build_commands")
    /\ properties[1].initrd_modules = Some(<<"virtio_net">>)
    /\ properties[1].initrd_firmware = Some(<<"firmware/wifi.bin">>)
    /\ properties[1].initrd_addons = None
    /\ ret[1].call[1].initrd_modules = Some(<<"virtio_net">>)

(* C7: get_build_environment returns a mapping with exactly the six keys,  *)
(* UBUNTU_CORE_BASE the part's base, UBUNTU_SERIES jammy for core22 and    *)
(* noble for any other base, and the other four values fixed.              *)
C7_BuildEnvironment ==
    Asked("get_build_environment") =>
        /\ DOMAIN ret[1].result =
              { "UC_INITRD_ROOT_NAME", "UC_INITRD_ROOT", "KERNEL_MODULES",
                "KERNEL_FIRMWARE", "UBUNTU_SERIES", "UBUNTU_CORE_BASE" }
        /\ ret[1].result["UBUNTU_CORE_BASE"] = part_info[1].base
        /\ part_info[1].base = "core22" => ret[1].result["UBUNTU_SERIES"] = "jammy"
        /\ part_info[1].base # "core22" => ret[1].result["UBUNTU_SERIES"] = "noble"
        /\ ret[1].result["UC_INITRD_ROOT_NAME"] = "uc-initramfs-build-root"
        /\ ret[1].result["UC_INITRD_ROOT"] = "${CRAFT_PART_SRC}/${UC_INITRD_ROOT_NAME}"
        /\ ret[1].result["KERNEL_MODULES"] = "${CRAFT_STAGE}/modules"
        /\ ret[1].result["KERNEL_FIRMWARE"] = "${CRAFT_STAGE}/firmware"

C7_Witness ==
    /\ Asked("get_build_environment")
    /\ part_info[1].base = "core20"
    /\ ret[1].result["UBUNTU_SERIES"] = "noble"

(* C8: get_out_of_source_build returns true and get_build_snaps returns    *)
(* the empty set, for every plugin and after any queries.                  *)
C8_OutOfSourceAndNoSnaps ==
    /\ Asked("get_out_of_source_build") => ret[1].result = TRUE
    /\ Asked("get_build_snaps") => ret[1].result = {}

C8_Witness ==
    /\ Asked("get_build_snaps")
    /\ ret[1].result = {}
    /\ part_info[1].base = "core24"

ResultOn(self, query, uid) ==
    IF query = "get_build_snaps" THEN get_build_snaps(self)
    ELSE IF query = "get_build_packages" THEN get_build_packages(self, uid[1])
    ELSE IF query = "get_build_environment" THEN get_build_environment(self)
    ELSE IF query = "get_build_commands" THEN get_build_commands(self)
    ELSE get_out_of_source_build

C10_QueriesArePure ==
    [][ plugin # None =>
          /\ plugin' = plugin
          /\ properties' = properties
          /\ part_info' = part_info
          /\ plugin'[1] = InitrdPlugin_init(properties[1], part_info[1])
          /\ ret' # None
          /\ ret'[1].result =
                ResultOn(InitrdPlugin_init(properties[1], part_info[1]),
                         ret'[1].query, ret'[1].uid) ]_vars

C10_Witness ==
    /\ Asked("get_out_of_source_build")
    /\ plugin[1] = InitrdPlugin_init(properties[1], part_info[1])

====
